---- MODULE Spec2Model ----
(***************************************************************************)
(* Model of api/index.py: the GET /api/generate handler                    *)
(* generate_itinerary (video-id extraction, primary transcript fetch,      *)
(* Invidious mirror fallback with the inline VTT parser, the retried       *)
(* Gemini call, JSON relay and the outer exception boundary).              *)
(*                                                                         *)
(* Strings the code inspects character by character (the URL, caption      *)
(* codes, caption payloads, transcripts) are sequences of one-character    *)
(* strings.  Python's None is the record None; a present value v is        *)
(* Some(v).                                                                *)
(***************************************************************************)
EXTENDS Naturals, Sequences, FiniteSets

VARIABLES
    pc,               \* position of the handler
    url,              \* the url query parameter
    urlId,            \* the identifier the url was built around (None: none)
    video_id,         \* line 40
    primary,          \* "pending", "returned" or "raised" (lines 48-70)
    transcript_text,  \* line 45
    mirror,           \* index of `instance` in invidious_instances (line 84)
    res,              \* outcome of the latest metadata request (line 89)
    caption_url,      \* line 94 / 97
    fetched_url,      \* the url of the latest caption request (line 101)
    served,           \* per mirror: the caption payload it answered with
    textLines,        \* the text lines the served payload was built from
    prompt,           \* the transcript part of the prompt (line 141)
    log,              \* outbound calls made so far, in order
    attempts,         \* outcome of each generate_content attempt, in order
    exc,              \* exception that reached the outer handler (line 181)
    model_response,   \* what call_gemini_with_retry returned (line 144)
    reply             \* what the caller of the endpoint receives

vars ==
    << pc, url, urlId, video_id, primary, transcript_text, mirror, res,
       caption_url, fetched_url, served, textLines, prompt, log, attempts, exc,
       model_response, reply >>

----------------------------------------------------------------------------
(* Optional values and string helpers *)

None == [some |-> FALSE, val |-> << >>]

Some(v) == [some |-> TRUE, val |-> v]

\* Python truthiness of an optional string: None and "" are falsy
Truthy(o) == o.some /\ Len(o.val) > 0

Min(a, b) == IF a <= b THEN a ELSE b

\* sep.join(parts) for sequences of character sequences
RECURSIVE Join(_, _)
Join(parts, sep) ==
    IF Len(parts) = 0 THEN << >>
    ELSE IF Len(parts) = 1 THEN parts[1]
    ELSE parts[1] \o sep \o Join(Tail(parts), sep)

\* s.startswith(prefix)
StartsWith(s, prefix) ==
    /\ Len(s) >= Len(prefix)
    /\ SubSeq(s, 1, Len(prefix)) = prefix

\* needle in s
Contains(s, needle) ==
    \E p \in 1..Len(s) :
        /\ p + Len(needle) - 1 <= Len(s)
        /\ SubSeq(s, p, p + Len(needle) - 1) = needle

----------------------------------------------------------------------------
(* 1. Extract Video ID: re.search(r"(?:v=|\/)([0-9A-Za-z_-]{11})", url) *)

IdLen == 11

IdChars ==
    {"0", "1", "2", "3", "4", "5", "6", "7", "8", "9",
     "A", "B", "C", "D", "E", "F", "G", "H", "I", "J", "K", "L", "M",
     "N", "O", "P", "Q", "R", "S", "T", "U", "V", "W", "X", "Y", "Z",
     "a", "b", "c", "d", "e", "f", "g", "h", "i", "j", "k", "l", "m",
     "n", "o", "p", "q", "r", "s", "t", "u", "v", "w", "x", "y", "z",
     "_", "-"}

\* Where the capture group starts if (?:v=|\/) matches at p; 0 if it does not.
GroupStart(u, p) ==
    IF p + 1 <= Len(u) /\ u[p] = "v" /\ u[p + 1] = "="
    THEN p + 2
    ELSE IF u[p] = "/" THEN p + 1 ELSE 0

\* The whole pattern matches starting at position p.
MatchAt(u, p) ==
    LET g == GroupStart(u, p)
    IN  /\ g # 0
        /\ g + IdLen - 1 <= Len(u)
        /\ \A k \in g..(g + IdLen - 1) : u[k] \in IdChars

\* re.search: the leftmost position where the pattern matches; group(1).
\* None stands for "search returned None".
ReSearch(u) ==
    LET hits == {p \in 1..Len(u) : MatchAt(u, p)}
    IN  IF hits = {} THEN None
        ELSE LET p == CHOOSE q \in hits : \A r \in hits : q <= r
                 g == GroupStart(u, p)
             IN  Some(SubSeq(u, g, g + IdLen - 1))

\* Inputs: urls built as prefix + marker + identifier + suffix.
\* https://www.youtube.com/watch?v=
PrefixWatch ==
    <<"h", "t", "t", "p", "s", ":", "/", "/", "w", "w", "w", ".", "y", "o", "u", "t", "u", "b", "e", ".", "c", "o", "m", "/", "w", "a", "t", "c", "h", "?", "v", "=">>

\* dQw4w9WgXcQ
IdRick ==
    <<"d", "Q", "w", "4", "w", "9", "W", "g", "X", "c", "Q">>

UrlPrefixes ==
    { PrefixWatch,
      \* https://www.youtube.com/watch?feature=shared&   (then v=)
      <<"h", "t", "t", "p", "s", ":", "/", "/", "w", "w", "w", ".", "y", "o", "u", "t", "u", "b", "e", ".", "c", "o", "m", "/", "w", "a", "t", "c", "h", "?", "f", "e", "a", "t", "u", "r", "e", "=", "s", "h", "a", "r", "e", "d", "&", "v", "=">>,
      \* https://youtu.be/
      <<"h", "t", "t", "p", "s", ":", "/", "/", "y", "o", "u", "t", "u", ".", "b", "e", "/">>,
      \* https://www.youtube.com/embed/
      <<"h", "t", "t", "p", "s", ":", "/", "/", "w", "w", "w", ".", "y", "o", "u", "t", "u", "b", "e", ".", "c", "o", "m", "/", "e", "m", "b", "e", "d", "/">>,
      \* https://youtube-nocookie.com/embed/
      <<"h", "t", "t", "p", "s", ":", "/", "/", "y", "o", "u", "t", "u", "b", "e", "-", "n", "o", "c", "o", "o", "k", "i", "e", ".", "c", "o", "m", "/", "e", "m", "b", "e", "d", "/">>,
      \* https://www.youtube.com/attribution_link?u=/watch?   (then v=)
      <<"h", "t", "t", "p", "s", ":", "/", "/", "w", "w", "w", ".", "y", "o", "u", "t", "u", "b", "e", ".", "c", "o", "m", "/", "a", "t", "t", "r", "i", "b", "u", "t", "i", "o", "n", "_", "l", "i", "n", "k", "?", "u", "=", "/", "w", "a", "t", "c", "h", "?", "v", "=">> }

UrlIds ==
    { IdRick,
      <<"a", "-", "b", "_", "c", "-", "d", "_", "e", "-", "1">>,
      <<"0", "1", "2", "3", "4", "5", "6", "7", "8", "9", "0">> }

UrlSuffixes ==
    { << >>,
      <<"&", "t", "=", "4", "2", "s">>,
      <<"?", "s", "i", "=", "a", "b", "c">>,
      <<"/">> }

\* https://www.youtube.com/
UrlHome ==
    <<"h", "t", "t", "p", "s", ":", "/", "/", "w", "w", "w", ".", "y", "o", "u", "t", "u", "b", "e", ".", "c", "o", "m", "/">>

\* Urls without any 11-character identifier after v= or /.
UrlsWithoutId ==
    { UrlHome,
      \* https://youtu.be/dQw4w9WgXc   (ten characters)
      <<"h", "t", "t", "p", "s", ":", "/", "/", "y", "o", "u", "t", "u", ".", "b", "e", "/", "d", "Q", "w", "4", "w", "9", "W", "g", "X", "c">>,
      \* not a url
      <<"n", "o", "t", " ", "a", " ", "u", "r", "l">>,
      \* https://www.youtube.com/@travel
      <<"h", "t", "t", "p", "s", ":", "/", "/", "w", "w", "w", ".", "y", "o", "u", "t", "u", "b", "e", ".", "c", "o", "m", "/", "@", "t", "r", "a", "v", "e", "l">> }

\* (url, identifier it contains) pairs
UrlInputs ==
    { <<p \o id \o s, Some(id)>> : p \in UrlPrefixes, id \in UrlIds, s \in UrlSuffixes }
        \cup { <<u, None>> : u \in UrlsWithoutId }

----------------------------------------------------------------------------
(* Simple VTT parser (lines 103-109) *)

Digits == {"0", "1", "2", "3", "4", "5", "6", "7", "8", "9"}

Whitespace == {" ", "\t", "\n", "\r"}

LineBreaks == {"\n", "\r"}

\* str.strip()
RECURSIVE LStrip(_)
LStrip(s) ==
    IF Len(s) > 0 /\ Head(s) \in Whitespace THEN LStrip(Tail(s)) ELSE s

RECURSIVE RStrip(_)
RStrip(s) ==
    IF Len(s) > 0 /\ s[Len(s)] \in Whitespace
    THEN RStrip(SubSeq(s, 1, Len(s) - 1))
    ELSE s

Strip(s) == RStrip(LStrip(s))

\* str.isdigit(): at least one character and all of them digits
IsDigit(s) == Len(s) > 0 /\ \A k \in 1..Len(s) : s[k] \in Digits

\* str.splitlines(): breaks are dropped, "\r\n" is one break, and no empty
\* last line is produced after a final break.
\* p holds the last character of a line break
BreakEnd(text, p) ==
    /\ text[p] \in LineBreaks
    /\ ~(text[p] = "\r" /\ p + 1 <= Len(text) /\ text[p + 1] = "\n")

\* where the lines start: at 1 and after every break, inside the text
LineStarts(text) ==
    {s \in 1..Len(text) : s = 1 \/ BreakEnd(text, s - 1)}

\* the line that starts at s: up to the next break character
LineAt(text, s) ==
    LET stops == {p \in s..Len(text) : text[p] \in LineBreaks}
        e == IF stops = {} THEN Len(text) + 1
             ELSE CHOOSE p \in stops : \A q \in stops : p <= q
    IN  SubSeq(text, s, e - 1)

SplitLines(text) ==
    LET starts == LineStarts(text)
    IN  [k \in 1..Cardinality(starts) |->
            LineAt(text, CHOOSE s \in starts :
                             Cardinality({t \in starts : t < s}) = k - 1)]

Arrow == <<"-", "-", ">">>

WebVtt == <<"W", "E", "B", "V", "T", "T">>

Space == <<" ">>

\* The condition of line 107
KeepLine(line) ==
    /\ ~Contains(line, Arrow)
    /\ ~IsDigit(Strip(line))
    /\ Len(Strip(line)) > 0
    /\ ~StartsWith(line, WebVtt)

RECURSIVE TextLinesOf(_)
TextLinesOf(lines) ==
    IF Len(lines) = 0 THEN << >>
    ELSE (IF KeepLine(Head(lines)) THEN <<Strip(Head(lines))>> ELSE << >>)
             \o TextLinesOf(Tail(lines))

\* lines 104-109: cap_res.text -> transcript_text
VttParse(text) == Join(TextLinesOf(SplitLines(text)), Space)

\* Inputs: payloads made of the header line, a blank line, and cues; a cue is
\* its numeric index line, its timing line, one or two text lines and a
\* blank line.
MaxCues == 2

VttTimingLine ==
    <<"0", "0", ":", "0", "0", ":", "0", "1", ".", "0", "0", "0", " ", "-", "-", ">", " ", "0", "0", ":", "0", "0", ":", "0", "4", ".", "0", "0", "0">>

VttIndexLines == << <<"1">>, <<"2">>, <<"3">>, <<"1", "0">> >>

VisitParis == <<"V", "i", "s", "i", "t", " ", "P", "a", "r", "i", "s">>

VttSpokenLines ==
    { VisitParis,
      <<" ", " ", "i", "n", " ", "s", "p", "r", "i", "n", "g", " ">>,
      <<"2", "0", "2", "4">> }

\* the text lines of one cue
VttCueTexts ==
    { <<a>> : a \in VttSpokenLines } \cup { <<a, b>> : a, b \in VttSpokenLines }

\* all sequences of at most n cues (each cue given by its text lines)
RECURSIVE VttCueLists(_)
VttCueLists(n) ==
    IF n = 0 THEN { << >> }
    ELSE LET shorter == VttCueLists(n - 1)
         IN  shorter \cup { Append(cs, c) : cs \in {x \in shorter : Len(x) = n - 1},
                                            c \in VttCueTexts }

Newline == <<"\n">>

\* the payload text of a list of cues
RECURSIVE VttCuesText(_, _)
VttCuesText(cues, k) ==
    IF k > Len(cues) THEN << >>
    ELSE VttIndexLines[k] \o Newline \o VttTimingLine \o Newline
             \o Join(cues[k], Newline) \o Newline \o Newline
             \o VttCuesText(cues, k + 1)

VttPayload(cues) == WebVtt \o Newline \o Newline \o VttCuesText(cues, 1)

\* the text lines of a list of cues, in order
RECURSIVE VttTexts(_)
VttTexts(cues) ==
    IF Len(cues) = 0 THEN << >> ELSE Head(cues) \o VttTexts(Tail(cues))

\* the trimmed text lines, joined by single spaces
RECURSIVE StripAll(_)
StripAll(ls) ==
    IF Len(ls) = 0 THEN << >> ELSE <<Strip(Head(ls))>> \o StripAll(Tail(ls))

ExpectedTranscript(texts) == Join(StripAll(texts), Space)

----------------------------------------------------------------------------
(* Method A inputs: the fragments the primary capability returns *)

MaxFragments == 2

FragmentTexts ==
    { <<"H", "e", "l", "l", "o">>, <<"w", "o", "r", "l", "d">> }

RECURSIVE FragmentLists(_)
FragmentLists(n) ==
    IF n = 0 THEN { << >> }
    ELSE LET shorter == FragmentLists(n - 1)
         IN  shorter \cup { Append(fs, f) : fs \in {x \in shorter : Len(x) = n - 1},
                                            f \in FragmentTexts }

----------------------------------------------------------------------------
(* Method B: Invidious fallback (lines 74-114) *)

invidious_instances ==
    << <<"https://", "invidious.flokinet.to">>,
       <<"https://", "inv.tux.pizza">>,
       <<"https://", "vid.puffyan.us">>,
       <<"https://", "invidious.drgns.space">>,
       <<"https://", "invidious.privacydev.net">>,
       <<"https://", "yt.drgnz.club">>,
       <<"https://", "invidious.nerdvpn.de">> >>

NumMirrors == Len(invidious_instances)

Mirrors == 1..NumMirrors

\* caption urls a mirror may list: relative to the mirror, or absolute
RelUrlA == <<"/api/v1/captions/vid?label=English">>

RelUrlB == <<"/api/v1/captions/vid?label=English+(auto-generated)">>

AbsUrl == <<"https://", "captions.example", "/vid.vtt">>

CodeEn == <<"e", "n">>

CapFrench ==
    [language |-> "French", code |-> <<"f", "r">>, url |-> Some(RelUrlB)]

CapEnglish(u) ==
    [language |-> "English", code |-> CodeEn, url |-> u]

\* language "English" but no code field: cap.get("code", "") is ""
CapEnglishNoCode ==
    [language |-> "English", code |-> << >>, url |-> Some(RelUrlA)]

\* matches by code prefix only
CapEnglishAuto ==
    [language |-> "English (auto-generated)", code |-> <<"e", "n", "-", "U", "S">>,
     url |-> Some(RelUrlB)]

CaptionLists ==
    { << >>,
      <<CapFrench>>,
      <<CapFrench, CapEnglish(Some(RelUrlA))>>,
      <<CapEnglishAuto, CapEnglish(Some(RelUrlA))>>,
      <<CapFrench, CapEnglishNoCode, CapEnglishAuto>>,
      <<CapEnglish(Some(AbsUrl))>>,
      <<CapEnglish(None)>> }

\* The answers of a mirror's metadata endpoint: a transport error or
\* timeout (requests.get raises), a non-200 status, a 200 whose body is not
\* JSON (res.json() raises), a 200 without a "captions" key, a 200 with a
\* caption list.
MetaResponses ==
    { [kind |-> "error", status |-> 0, json |-> FALSE, captions |-> None] }
        \cup { [kind |-> "response", status |-> st, json |-> FALSE, captions |-> None] :
                   st \in {403, 503} }
        \cup { [kind |-> "response", status |-> 200, json |-> FALSE, captions |-> None],
               [kind |-> "response", status |-> 200, json |-> TRUE, captions |-> None] }
        \cup { [kind |-> "response", status |-> 200, json |-> TRUE, captions |-> Some(l)] :
                   l \in CaptionLists }

\* before the first metadata request
NoResponse == [kind |-> "none", status |-> 0, json |-> FALSE, captions |-> None]

\* line 96
IsEnglish(cap) ==
    cap.language = "English" \/ StartsWith(cap.code, CodeEn)

\* lines 95-98 without the break: the last matching entry wins
LastEnglish(captions) ==
    LET hits == {k \in 1..Len(captions) : IsEnglish(captions[k])}
    IN  IF hits = {} THEN 0 ELSE CHOOSE k \in hits : \A j \in hits : k >= j

\* lines 95-98: index of the entry the loop breaks at, 0 if it never breaks
FirstEnglish(captions) ==
    LET hits == {k \in 1..Len(captions) : IsEnglish(captions[k])}
    IN  IF hits = {} THEN 0 ELSE CHOOSE k \in hits : \A j \in hits : k <= j

\* line 97
CaptionUrl(i, cap_url) == invidious_instances[i] \o cap_url

\* a url requests can reach a server with: one scheme, at its start
Reachable(u) == \A k \in 2..Len(u) : u[k] # "https://"

\* caption payloads served in the handler specification: at most one cue of
\* one text line
ServedCues == { cs \in VttCueLists(1) : Len(VttTexts(cs)) <= 1 }

CapError == [kind |-> "error", status |-> 0, text |-> << >>]

CapStatus(st) == [kind |-> "response", status |-> st, text |-> << >>]

CapOk(cues) == [kind |-> "response", status |-> 200, text |-> VttPayload(cues)]

----------------------------------------------------------------------------
(* Exceptions and their str() *)

NoException ==
    [type |-> "none", status |-> "", msg |-> "", cause_type |-> "", cause_msg |-> ""]

\* None.group(1) on line 40
AttributeError ==
    [type |-> "AttributeError", status |-> "",
     msg |-> "'NoneType' object has no attribute 'group'",
     cause_type |-> "", cause_msg |-> ""]

\* line 117
ExhaustedError ==
    [type |-> "HTTPException", status |-> "429",
     msg |-> "YouTube blocked requests and all fallbacks failed. Please configure a proxy.",
     cause_type |-> "", cause_msg |-> ""]

\* what client.models.generate_content may raise
GeminiErrors ==
    { [type |-> "ClientError", status |-> "", msg |-> "429 RESOURCE_EXHAUSTED",
       cause_type |-> "", cause_msg |-> ""],
      [type |-> "ServerError", status |-> "", msg |-> "503 UNAVAILABLE",
       cause_type |-> "", cause_msg |-> ""] }

\* tenacity's RetryError around the last attempt (no reraise=True on line 26):
\* it keeps the attempt's Future, which holds the exception that was raised
RetryError(last) ==
    [type |-> "RetryError", status |-> "", msg |-> "",
     cause_type |-> last.type, cause_msg |-> last.msg]

\* the possible values of str(e), as sequences of pieces.  For HTTPException
\* it depends on the installed Starlette: "429: <detail>" where the class
\* defines __str__, "" where it does not.  RetryError's is
\* "RetryError[<Future at 0x.. state=finished raised ClientError>]": the
\* Future's repr names the type of the exception, not its message.
StrOf(e) ==
    IF e.type = "HTTPException"
    THEN { <<e.status, ": ", e.msg>>, << >> }
    ELSE IF e.type = "RetryError"
    THEN { <<"RetryError[", "<Future state=finished raised ", e.cause_type, ">", "]">> }
    ELSE { <<e.msg>> }

----------------------------------------------------------------------------
(* The language-model call and its answer *)

MaxAttempts == 3

PromptLimit == 15000

NoText == [some |-> FALSE, val |-> ""]

\* response.text of the answers generate_content may give
ResponseTexts ==
    { NoText,
      [some |-> TRUE, val |-> ""],
      [some |-> TRUE, val |-> "{\"trip_title\": \"Paris\", \"summary\": \"s\", \"days\": []}"],
      [some |-> TRUE, val |-> "{\"days\": 3}"],
      [some |-> TRUE, val |-> "Here is your itinerary: {"] }

NoModelResponse == [returned |-> FALSE, text |-> NoText]

\* json.loads on the texts above: the parsed object, or JSONDecodeError
JsonLoads(t) ==
    IF t = "{\"trip_title\": \"Paris\", \"summary\": \"s\", \"days\": []}"
    THEN [ok |-> TRUE, value |-> [trip_title |-> "Paris", summary |-> "s", days |-> << >>]]
    ELSE IF t = "{\"days\": 3}"
    THEN [ok |-> TRUE, value |-> [days |-> 3]]
    ELSE [ok |-> FALSE, value |-> [error |-> "JSONDecodeError"]]

NoReply == [kind |-> "none", status |-> 0, detail |-> << >>, body |-> [none |-> TRUE]]

----------------------------------------------------------------------------
(* The handler, generate_itinerary (lines 36-182) *)

\* an outbound call: its kind and the mirror it goes to (0: not a mirror)
Call(kind, i) == [call |-> kind, mirror |-> i]

\* how many calls of that kind mirror i (0: not a mirror) has received
Count(kind, i) ==
    Cardinality({k \in 1..Len(log) : log[k].call = kind /\ log[k].mirror = i})

\* the urls the handler specification starts from
HandlerUrls ==
    { <<PrefixWatch \o IdRick, Some(IdRick)>> } \cup { <<u, None>> : u \in UrlsWithoutId }

Start(u, id) ==
    /\ pc = "start"
    /\ url = u
    /\ urlId = id
    /\ video_id = None
    /\ primary = "pending"
    /\ transcript_text = None
    /\ mirror = 0
    /\ res = NoResponse
    /\ caption_url = None
    /\ fetched_url = None
    /\ served = [i \in Mirrors |-> None]
    /\ textLines = << >>
    /\ prompt = << >>
    /\ log = << >>
    /\ attempts = << >>
    /\ exc = NoException
    /\ model_response = NoModelResponse
    /\ reply = NoReply

Init == \E x \in HandlerUrls : Start(x[1], x[2])

\* an exception leaves the body of the outer try (line 38) for line 181
Raise(e) ==
    /\ exc' = e
    /\ pc' = "except"

\* lines 119-142: the prompt is built around transcript_text[:15000] and the
\* handler reaches the model call
BuildPrompt(t) ==
    /\ prompt' = SubSeq(t, 1, Min(Len(t), PromptLimit))
    /\ pc' = "model"

\* line 40 without the failing .group(1): the handler goes on with no id
ExtractIdUnchecked ==
    /\ pc = "start"
    /\ video_id' = ReSearch(url)
    /\ pc' = "primary"
    /\ UNCHANGED << url, urlId, primary, transcript_text, mirror, res, caption_url,
                    fetched_url, served, textLines, prompt, log, attempts,
                    exc, model_response, reply >>

\* line 40: re.search(...).group(1); on no match None.group raises
ExtractId ==
    /\ pc = "start"
    /\ LET m == ReSearch(url)
       IN  IF m.some
           THEN /\ video_id' = m
                /\ pc' = "primary"
                /\ UNCHANGED exc
           ELSE /\ Raise(AttributeError)
                /\ UNCHANGED video_id
    /\ UNCHANGED << url, urlId, primary, transcript_text, mirror, res, caption_url,
                    fetched_url, served, textLines, prompt, log, attempts,
                    model_response, reply >>

\* a primary fetch that sends an empty transcript to the mirrors as well
PrimaryReturnsOrFallsBack(frags) ==
    /\ pc = "primary"
    /\ log' = Append(log, Call("primary", 0))
    /\ transcript_text' = Some(Join(frags, Space))
    /\ primary' = "returned"
    /\ IF Len(Join(frags, Space)) > 0
       THEN BuildPrompt(Join(frags, Space)) /\ UNCHANGED mirror
       ELSE pc' = "mirror" /\ mirror' = 1 /\ UNCHANGED prompt
    /\ UNCHANGED << url, urlId, video_id, res, caption_url, fetched_url, served,
                    textLines, attempts, exc, model_response, reply >>

\* lines 48-64, no exception: get_transcript, or fetch where the library has
\* no get_transcript, returns; the fragments' texts are joined by single
\* spaces and the except block of line 69 is skipped
PrimaryReturns(frags) ==
    /\ pc = "primary"
    /\ log' = Append(log, Call("primary", 0))
    /\ transcript_text' = Some(Join(frags, Space))
    /\ primary' = "returned"
    /\ BuildPrompt(Join(frags, Space))
    /\ UNCHANGED << url, urlId, video_id, mirror, res, caption_url, fetched_url,
                    served, textLines, attempts, exc, model_response, reply >>

\* lines 65-70 and 84: the call raises, the error is printed and the loop
\* over the mirrors starts
PrimaryRaises ==
    /\ pc = "primary"
    /\ log' = Append(log, Call("primary", 0))
    /\ primary' = "raised"
    /\ mirror' = 1
    /\ pc' = "mirror"
    /\ UNCHANGED << url, urlId, video_id, transcript_text, res, caption_url,
                    fetched_url, served, textLines, prompt, attempts, exc,
                    model_response, reply >>

\* the loop stepping over the next instance
ContinueLoopSkip ==
    IF mirror + 1 < NumMirrors
    THEN mirror' = mirror + 2 /\ pc' = "mirror"
    ELSE pc' = "after_loop" /\ UNCHANGED mirror

\* the for loop of line 84 moves to its next instance, or ends
ContinueLoop ==
    IF mirror < NumMirrors
    THEN mirror' = mirror + 1 /\ pc' = "mirror"
    ELSE pc' = "after_loop" /\ UNCHANGED mirror

\* the success path without its break: the loop goes on
BreakLoopMissing == ContinueLoop

\* line 111
BreakLoop ==
    /\ pc' = "after_loop"
    /\ UNCHANGED mirror

\* lines 89-100 and 112-114: the metadata request to the current instance
MirrorMetadata(r) ==
    /\ pc = "mirror"
    /\ log' = Append(log, Call("meta", mirror))
    /\ res' = r
    /\ IF r.kind = "error" \/ r.status # 200 \/ ~r.json
       THEN \* requests.get or res.json() raised, or the status check failed
            /\ ContinueLoop
            /\ UNCHANGED caption_url
       ELSE LET captions == IF r.captions.some THEN r.captions.val ELSE << >>
                k == FirstEnglish(captions)
            IN  IF k = 0
                THEN \* caption_url stays None
                     /\ caption_url' = None
                     /\ ContinueLoop
                ELSE IF ~captions[k].url.some
                THEN \* instance + None raises TypeError (line 97)
                     /\ caption_url' = None
                     /\ ContinueLoop
                ELSE /\ caption_url' = Some(CaptionUrl(mirror, captions[k].url.val))
                     /\ pc' = "caption"
                     /\ UNCHANGED mirror
    /\ UNCHANGED << url, urlId, video_id, primary, transcript_text,
                    fetched_url, served, textLines, prompt, attempts, exc,
                    model_response, reply >>

\* lines 101-111: the caption request; cues are what the payload was made of
MirrorCaption(r, cues) ==
    /\ pc = "caption"
    /\ log' = Append(log, Call("caption", mirror))
    /\ fetched_url' = caption_url
    /\ IF r.kind = "response" /\ r.status = 200
       THEN /\ transcript_text' = Some(VttParse(r.text))
            /\ served' = [served EXCEPT ![mirror] = Some(r.text)]
            /\ textLines' = VttTexts(cues)
            /\ BreakLoop
       ELSE /\ ContinueLoop
            /\ UNCHANGED << transcript_text, served, textLines >>
    /\ UNCHANGED << url, urlId, video_id, primary, res, caption_url, prompt,
                    attempts, exc, model_response, reply >>

\* what the server behind caption_url may answer
CaptionAnswers(cueLists) ==
    IF Reachable(caption_url.val)
    THEN { <<CapError, << >> >> }
             \cup { <<CapStatus(st), << >> >> : st \in {404, 500} }
             \cup { <<CapOk(cs), cs>> : cs \in cueLists }
    ELSE { <<CapError, << >> >> }

\* the loop's end without the check of line 116
AfterLoopUnchecked ==
    /\ pc = "after_loop"
    /\ BuildPrompt(transcript_text.val)
    /\ UNCHANGED << url, urlId, video_id, primary, transcript_text, mirror,
                    res, caption_url, fetched_url, served, textLines, log,
                    attempts, exc, model_response, reply >>

\* lines 116-117, then the prompt
AfterLoop ==
    /\ pc = "after_loop"
    /\ IF ~Truthy(transcript_text)
       THEN Raise(ExhaustedError) /\ UNCHANGED prompt
       ELSE BuildPrompt(transcript_text.val) /\ UNCHANGED exc
    /\ UNCHANGED << url, urlId, video_id, primary, transcript_text, mirror,
                    res, caption_url, fetched_url, served, textLines, log,
                    attempts, model_response, reply >>

\* stop_after_attempt(3) that allows one attempt more
StopAfterAttemptLate(n) == n > MaxAttempts

\* stop_after_attempt(3) (line 26): stop once n attempts have been made
StopAfterAttempt(n) == n >= MaxAttempts

\* line 144, one attempt of call_gemini_with_retry that raises: tenacity
\* retries (after its wait) unless the stop condition holds, and then raises
\* RetryError
GeminiRaises(e) ==
    /\ pc = "model"
    /\ log' = Append(log, Call("gemini", 0))
    /\ attempts' = Append(attempts, "raised")
    /\ IF StopAfterAttempt(Len(attempts) + 1)
       THEN Raise(RetryError(e))
       ELSE UNCHANGED << pc, exc >>
    /\ UNCHANGED << url, urlId, video_id, primary, transcript_text, mirror,
                    res, caption_url, fetched_url, served, textLines, prompt,
                    model_response, reply >>

\* line 144, one attempt that returns
GeminiReturns(t) ==
    /\ pc = "model"
    /\ log' = Append(log, Call("gemini", 0))
    /\ attempts' = Append(attempts, "returned")
    /\ model_response' = [returned |-> TRUE, text |-> t]
    /\ pc' = "parse"
    /\ UNCHANGED << url, urlId, video_id, primary, transcript_text, mirror,
                    res, caption_url, fetched_url, served, textLines, prompt, exc,
                    reply >>

Returned(b) == [kind |-> "json", status |-> 200, detail |-> << >>, body |-> b]

HttpError(st, d) ==
    [kind |-> "http_error", status |-> st, detail |-> d, body |-> [none |-> TRUE]]

\* lines 156-180 without the handler of line 178: the JSONDecodeError reaches
\* line 181
ParseResponseUncaught ==
    /\ pc = "parse"
    /\ LET t == model_response.text
       IN  IF ~t.some \/ t.val = ""
           THEN /\ reply' = Returned(
                        [error |-> "The AI model returned an empty response. This might be due to safety filters or overload.",
                         detail |-> "str(response)"])
                /\ pc' = "done"
                /\ UNCHANGED exc
           ELSE IF JsonLoads(t.val).ok
           THEN /\ reply' = Returned(JsonLoads(t.val).value)
                /\ pc' = "done"
                /\ UNCHANGED exc
           ELSE /\ Raise([type |-> "JSONDecodeError", status |-> "", msg |-> "Expecting value",
                          cause_type |-> "", cause_msg |-> ""])
                /\ UNCHANGED reply
    /\ UNCHANGED << url, urlId, video_id, primary, transcript_text, mirror,
                    res, caption_url, fetched_url, served, textLines, prompt, log,
                    attempts, model_response >>

\* lines 156-177 returning the parsed object inside an envelope
ParseResponseWrapped ==
    /\ pc = "parse"
    /\ LET t == model_response.text
       IN  IF ~t.some \/ t.val = ""
           THEN reply' = Returned(
                    [error |-> "The AI model returned an empty response. This might be due to safety filters or overload.",
                     detail |-> "str(response)"])
           ELSE IF JsonLoads(t.val).ok
           THEN reply' = Returned([itinerary |-> JsonLoads(t.val).value])
           ELSE reply' = Returned(
                    [error |-> "Failed to generate structured itinerary",
                     raw_text |-> t.val])
    /\ pc' = "done"
    /\ UNCHANGED << url, urlId, video_id, primary, transcript_text, mirror,
                    res, caption_url, fetched_url, served, textLines, prompt, log,
                    attempts, exc, model_response >>

\* lines 151-180
ParseResponse ==
    /\ pc = "parse"
    /\ LET t == model_response.text
       IN  IF ~t.some \/ t.val = ""
           THEN reply' = Returned(
                    [error |-> "The AI model returned an empty response. This might be due to safety filters or overload.",
                     detail |-> "str(response)"])
           ELSE IF JsonLoads(t.val).ok
           THEN reply' = Returned(JsonLoads(t.val).value)
           ELSE reply' = Returned(
                    [error |-> "Failed to generate structured itinerary",
                     raw_text |-> t.val])
    /\ pc' = "done"
    /\ UNCHANGED << url, urlId, video_id, primary, transcript_text, mirror,
                    res, caption_url, fetched_url, served, textLines, prompt, log,
                    attempts, exc, model_response >>

\* lines 181-182 with a fixed detail in place of str(e)
OuterExceptGeneric ==
    /\ pc = "except"
    /\ reply' = HttpError(500, <<"Internal Server Error">>)
    /\ pc' = "done"
    /\ UNCHANGED << url, urlId, video_id, primary, transcript_text, mirror,
                    res, caption_url, fetched_url, served, textLines, prompt, log,
                    attempts, exc, model_response >>

\* lines 181-182: every Exception, HTTPException included, becomes a 500
\* whose detail is str(e)
OuterExcept ==
    /\ pc = "except"
    /\ \E d \in StrOf(exc) : reply' = HttpError(500, d)
    /\ pc' = "done"
    /\ UNCHANGED << url, urlId, video_id, primary, transcript_text, mirror,
                    res, caption_url, fetched_url, served, textLines, prompt, log,
                    attempts, exc, model_response >>

Next ==
    \/ ExtractId
    \/ \E frags \in FragmentLists(MaxFragments) : PrimaryReturns(frags)
    \/ PrimaryRaises
    \/ \E r \in MetaResponses : MirrorMetadata(r)
    \/ \E a \in CaptionAnswers(ServedCues) : MirrorCaption(a[1], a[2])
    \/ AfterLoop
    \/ \E e \in GeminiErrors : GeminiRaises(e)
    \/ \E t \in ResponseTexts : GeminiReturns(t)
    \/ ParseResponse
    \/ OuterExcept

Spec == Init /\ [][Next]_vars

\* The handler runs on to its end: it is sequential code, every outbound
\* request has a timeout (lines 89, 101) or returns or raises, and tenacity
\* re-calls after a bounded wait (line 26), so a step that can be taken is
\* taken.
FairSpec == Spec /\ WF_vars(Next)

----------------------------------------------------------------------------
(* Identifier extraction alone, over all the url inputs *)

InitExtract == \E x \in UrlInputs : Start(x[1], x[2])

NextExtract == ExtractId

SpecExtract == InitExtract /\ [][NextExtract]_vars

(* The caption request of the first mirror alone, over all payloads of at
   most MaxCues cues: the primary fetch raised and the first mirror listed an
   English track *)

InitVtt ==
    /\ pc = "caption"
    /\ url = PrefixWatch \o IdRick
    /\ urlId = Some(IdRick)
    /\ video_id = Some(IdRick)
    /\ primary = "raised"
    /\ transcript_text = None
    /\ mirror = 1
    /\ res = [kind |-> "response", status |-> 200, json |-> TRUE,
               captions |-> Some(<<CapFrench, CapEnglish(Some(RelUrlA))>>)]
    /\ caption_url = Some(CaptionUrl(1, RelUrlA))
    /\ fetched_url = None
    /\ served = [i \in Mirrors |-> None]
    /\ textLines = << >>
    /\ prompt = << >>
    /\ log = <<Call("primary", 0), Call("meta", 1)>>
    /\ attempts = << >>
    /\ exc = NoException
    /\ model_response = NoModelResponse
    /\ reply = NoReply

NextVtt == \E a \in CaptionAnswers(VttCueLists(MaxCues)) : MirrorCaption(a[1], a[2])

SpecVtt == InitVtt /\ [][NextVtt]_vars

----------------------------------------------------------------------------
(* Properties *)

MirrorCalls == {k \in 1..Len(log) : log[k].call \in {"meta", "caption"}}

ModelCalls == Count("gemini", 0)

\* C1: when the primary strategy returned without raising, whatever the
\* fragments, no mirror has received a metadata or a caption request.
C1_PrimarySuccessContactsNoMirror ==
    primary = "returned" => MirrorCalls = {}

\* the primary returned no fragment at all and the request ran to its end
C1_Witness ==
    /\ primary = "returned"
    /\ transcript_text = Some(<< >>)
    /\ pc = "done"

\* C2: when the primary strategy raised and mirror i is the first mirror
\* that succeeded, the transcript is the text parsed from the payload mirror
\* i served, every mirror before i got exactly one metadata request, and no
\* mirror after i got any request.
C2_FirstSucceedingMirrorWins ==
    \A i \in Mirrors :
        (primary = "raised" /\ served[i].some /\ \A j \in 1..(i - 1) : ~served[j].some)
            => /\ transcript_text = Some(VttParse(served[i].val))
               /\ \A j \in 1..(i - 1) : Count("meta", j) = 1
               /\ \A j \in (i + 1)..NumMirrors :
                      Count("meta", j) = 0 /\ Count("caption", j) = 0

\* the third mirror served "Visit Paris" after two failing mirrors
C2_Witness ==
    /\ primary = "raised"
    /\ served[3].some
    /\ transcript_text = Some(VisitParis)
    /\ Count("meta", 1) = 1 /\ Count("meta", 2) = 1
    /\ pc = "done"
    /\ reply.kind = "json"

AllMirrorsFailed ==
    \A i \in Mirrors : Count("meta", i) >= 1 /\ ~served[i].some

\* C3: when the primary strategy raised and every mirror failed, the
\* resolver ends in the exhaustion error of line 117 and the language model
\* is never called.
C3_AllMirrorsFailMeansExhaustion ==
    (primary = "raised" /\ \A i \in Mirrors : ~served[i].some)
        => /\ ModelCalls = 0
           /\ (AllMirrorsFailed /\ pc \in {"except", "done"}) => exc = ExhaustedError

\* all seven mirrors failed, one of them at its caption request
C3_Witness ==
    /\ primary = "raised"
    /\ AllMirrorsFailed
    /\ \E i \in Mirrors : Count("caption", i) = 1
    /\ exc = ExhaustedError
    /\ pc = "done"

\* the piece d of a detail is one of its pieces
Carries(detail, d) == \E k \in 1..Len(detail) : detail[k] = d

\* C4: when all transcript strategies are exhausted, the caller receives
\* status 429 with a detail that advises configuring a proxy.
C4_ExhaustionIs429 ==
    (primary = "raised" /\ AllMirrorsFailed /\ exc = ExhaustedError /\ pc = "done")
        => /\ reply.kind = "http_error"
           /\ reply.status = 429
           /\ Carries(reply.detail, ExhaustedError.msg)

\* C5: the request ends in the exhaustion error only when the primary
\* strategy and every mirror of the list have been attempted.
C5_ExhaustionOnlyAfterEveryStrategy ==
    exc = ExhaustedError
        => /\ Count("primary", 0) >= 1
           /\ \A i \in Mirrors : Count("meta", i) >= 1

\* C6: a url without a recognizable identifier ends at once in an error
\* response: no primary call, no mirror request, no model call.
C6_NoIdentifierEndsAtOnce ==
    ~urlId.some
        => /\ log = << >>
           /\ pc \in {"start", "except", "done"}
           /\ (pc = "done" => reply.kind = "http_error")

C6_Witness ==
    /\ ~urlId.some
    /\ pc = "done"
    /\ exc = AttributeError
    /\ reply.kind = "http_error"
    /\ reply.status = 500

\* C7: for a url that contains a valid 11-character identifier after v= or
\* after /, extraction returns exactly that identifier, whatever else the
\* url contains.
C7_ExtractionReturnsTheIdentifier ==
    (urlId.some /\ pc # "start") => video_id = urlId

\* C8: parsing a payload made of the header line, cue-index lines, timing
\* lines, blank lines and text lines gives exactly the trimmed text lines,
\* in order, joined by single spaces.
C8_ParserKeepsExactlyTheTextLines ==
    (\E i \in Mirrors : served[i].some)
        => transcript_text = Some(ExpectedTranscript(textLines))

\* C9: the language-model call is attempted at most 3 times per request, and
\* every attempt but the latest raised: an attempt follows only a failed
\* attempt, none follows a successful one, none follows three failures.
C9_AtMostThreeAttempts ==
    /\ Len(attempts) <= 3
    /\ \A k \in 1..(Len(attempts) - 1) : attempts[k] = "raised"
    /\ ModelCalls = Len(attempts)

\* three attempts raised and the request ended
C9_Witness ==
    /\ attempts = <<"raised", "raised", "raised">>
    /\ pc = "done"

\* C10: when every attempt of the retry budget failed, the request ends in
\* HTTP 500 whose detail carries the underlying error's message, and no
\* itinerary or error payload is returned.
C10_RetryFailureCarriesMessage ==
    (exc.type = "RetryError" /\ pc = "done")
        => /\ reply.kind = "http_error"
           /\ reply.status = 500
           /\ Carries(reply.detail, exc.cause_msg)

\* the text of the model's answer is empty: None or ""
EmptyText == ~model_response.text.some \/ model_response.text.val = ""

\* C11: when the model call returns a response whose text is empty or is not
\* valid JSON, the request ends normally, without exception or HTTP error,
\* in a JSON body that has an 'error' field, with a 'detail' when the text
\* was empty and with the raw text when it was not valid JSON.
C11_MalformedOutputIsAPayload ==
    (pc = "done" /\ model_response.returned
        /\ (EmptyText \/ ~JsonLoads(model_response.text.val).ok))
        => /\ exc = NoException
           /\ reply.kind = "json"
           /\ reply.status = 200
           /\ "error" \in DOMAIN reply.body
           /\ IF EmptyText
              THEN "detail" \in DOMAIN reply.body
              ELSE /\ "raw_text" \in DOMAIN reply.body
                   /\ reply.body.raw_text = model_response.text.val

\* the model answered text that is not JSON and the request ended with it
\* in the payload
C11_Witness ==
    /\ pc = "done"
    /\ model_response.returned
    /\ model_response.text = [some |-> TRUE, val |-> "Here is your itinerary: {"]
    /\ reply.kind = "json"
    /\ reply.body.raw_text = "Here is your itinerary: {"

C13_OnlyTerminalOutcomesSurface ==
    /\ (pc # "done") => reply = NoReply
    /\ (reply.kind = "http_error")
        => exc.type \in {"AttributeError", "HTTPException", "RetryError"}
    /\ (pc = "done" /\ exc # NoException) => reply.kind = "http_error"
    /\ (pc = "done" /\ exc # NoException /\ exc # ExhaustedError)
        => /\ reply.status = 500
           /\ reply.detail \in StrOf(exc)
           /\ reply.detail # << >>

\* the primary strategy raised, the first mirror failed, the second gave a
\* transcript, and the exception of the model call became the HTTP 500
C13_Witness ==
    /\ pc = "done"
    /\ primary = "raised"
    /\ Count("meta", 1) = 1
    /\ ~served[1].some
    /\ served[2].some
    /\ exc.type = "RetryError"
    /\ reply.kind = "http_error"
    /\ reply.status = 500

\* the latest metadata answer had status 200 and a JSON body
MetaOk == res.kind = "response" /\ res.status = 200 /\ res.json

\* the caption list of the latest metadata answer
MetaCaptions == IF res.captions.some THEN res.captions.val ELSE << >>

\* the entries of that list that are English by language or by code
Matches == {k \in 1..Len(MetaCaptions) : IsEnglish(MetaCaptions[k])}

\* the latest outbound call, when there is one
LastCall == IF log = << >> THEN Call("none", 0) ELSE log[Len(log)]

\* C14: the resolver never retries or reorders a strategy. The primary
\* strategy is called at most once and before every mirror; each mirror gets
\* at most one metadata and at most one caption request; mirror calls come
\* in list order; mirror i+1 is contacted only when mirror i was contacted
\* and gave no payload; a caption request directly follows the metadata
\* request of the same mirror, whose answer was 200 with an English track.
C14_NoRetryNoReorder ==
    /\ Count("primary", 0) <= 1
    /\ \A k \in MirrorCalls : log[1].call = "primary" /\ primary = "raised"
    /\ \A i \in Mirrors : Count("meta", i) <= 1 /\ Count("caption", i) <= 1
    /\ \A k, l \in MirrorCalls : k < l => log[k].mirror <= log[l].mirror
    /\ \A i \in Mirrors :
          (i > 1 /\ Count("meta", i) = 1)
              => Count("meta", i - 1) = 1 /\ ~served[i - 1].some
    /\ \A l \in 1..Len(log) :
          log[l].call = "caption"
              => l > 1 /\ log[l - 1] = Call("meta", log[l].mirror)
    /\ (pc = "caption" \/ LastCall.call = "caption")
          => MetaOk /\ Matches # {}

\* the first mirror failed at its metadata, the second at its caption
\* payload, the third gave the transcript
C14_Witness ==
    /\ log = << Call("primary", 0), Call("meta", 1), Call("meta", 2),
                Call("caption", 2), Call("meta", 3), Call("caption", 3) >>
    /\ served[3].some
    /\ pc = "after_loop"

\* C15: the selected track is the first entry, in list order, whose language
\* is "English" or whose code starts with "en": the caption url is built
\* from that entry and from no later one. When no entry matches, the mirror
\* has failed: it gets no caption request and the next mirror is tried (or,
\* after the last mirror, the loop ends without a transcript).
C15_FirstEnglishTrackIsSelected ==
    /\ (pc = "caption")
        => \E k \in Matches :
              /\ \A j \in Matches : k <= j
              /\ MetaCaptions[k].url.some
              /\ caption_url = Some(CaptionUrl(mirror, MetaCaptions[k].url.val))
    /\ (LastCall.call = "meta" /\ MetaOk /\ Matches = {})
        => /\ caption_url = None
           /\ Count("caption", LastCall.mirror) = 0
           /\ ~served[LastCall.mirror].some
           /\ IF LastCall.mirror < NumMirrors
              THEN pc = "mirror" /\ mirror = LastCall.mirror + 1
              ELSE pc \in {"after_loop", "except", "done"} /\ ~Truthy(transcript_text)

\* two entries match and the url of the first one is the one selected
C15_Witness ==
    /\ pc = "caption"
    /\ MetaCaptions = <<CapEnglishAuto, CapEnglish(Some(RelUrlA))>>
    /\ caption_url = Some(CaptionUrl(mirror, RelUrlB))

\* a url that names its own scheme and host
IsAbsolute(u) == Len(u) > 0 /\ u[1] = "https://"

\* C16: the caption payload is requested at the selected track's url as
\* given when that url is absolute, and at the mirror's base followed by the
\* url only when it is relative.
C16_CaptionFetchedAtResolvedUrl ==
    (LastCall.call = "caption" /\ Matches # {})
        => LET k == CHOOSE k \in Matches : \A j \in Matches : k <= j
               u == MetaCaptions[k].url.val
           IN  fetched_url =
                   Some(IF IsAbsolute(u)
                        THEN u
                        ELSE invidious_instances[LastCall.mirror] \o u)

\* how many calls of that kind the mirrors have received together
MirrorTotal(kind) ==
    Cardinality({k \in 1..Len(log) : log[k].call = kind /\ log[k].mirror \in Mirrors})

\* the three terminal outcomes of a request
IsItinerary == reply.kind = "json" /\ "error" \notin DOMAIN reply.body

IsErrorPayload == reply.kind = "json" /\ "error" \in DOMAIN reply.body

IsHttpError == reply.kind = "http_error"

\* the resolver has handed a transcript on to the rest of the pipeline
ResolverSuccess == transcript_text.some /\ exc # ExhaustedError

\* the resolver has raised its exhaustion error
ResolverExhausted == exc = ExhaustedError /\ ModelCalls = 0

\* C17: when every outbound call returns or raises, every request ends, and
\* stays, in exactly one terminal outcome: the itinerary object, a structured
\* error payload or an HTTP error. On the way it makes at most 1 primary call,
\* 7 metadata requests, 7 caption requests and 3 model-call attempts, and
\* once the resolver is over it is in Success or in AllExhausted, never both.
C17_EveryRequestTerminates ==
    /\ [](/\ Count("primary", 0) <= 1
          /\ MirrorTotal("meta") <= 7
          /\ MirrorTotal("caption") <= 7
          /\ ModelCalls <= 3
          /\ (pc = "done")
               => /\ IsItinerary \/ IsErrorPayload \/ IsHttpError
                  /\ ~(IsItinerary /\ IsHttpError)
                  /\ ~(IsErrorPayload /\ IsHttpError)
                  /\ ~(IsItinerary /\ IsErrorPayload)
          /\ (pc \in {"model", "parse", "except", "done"} /\ video_id.some)
               => /\ ResolverSuccess \/ ResolverExhausted
                  /\ ~(ResolverSuccess /\ ResolverExhausted))
    /\ <>[](pc = "done")

\* a request that used the whole budget: seven metadata and seven caption
\* requests, three model-call attempts, and then its HTTP error
C17_Witness ==
    /\ pc = "done"
    /\ Count("primary", 0) = 1
    /\ MirrorTotal("meta") = 7
    /\ MirrorTotal("caption") = 7
    /\ ModelCalls = 3
    /\ IsHttpError

\* C18: whenever the model call is made, or is about to be made, the
\* resolver has produced a non-empty transcript: an empty transcript never
\* reaches the model.
C18_ModelCallHasTranscript ==
    (pc \in {"model", "parse"} \/ ModelCalls > 0) => Truthy(transcript_text)

====
